---- MODULE Spec2Model ----
(***************************************************************************)
(* Model of main.py: the Redux-like Store (state, reducer, listeners), the  *)
(* DatabaseService (one table `students`), and the handlers of the two     *)
(* windows, which call the DatabaseService and then dispatch to the Store. *)
(*                                                                         *)
(* Python objects that can be shared are modelled on a heap: an AppState   *)
(* is an object at an address, and its `students` field is the address of  *)
(* a dict object, so that two AppStates sharing one dict (LOAD_STUDENT,    *)
(* SET_ERROR, CLEAR_ERROR) really share it.                                *)
(***************************************************************************)
EXTENDS Integers, Sequences, FiniteSets, TLC

VARIABLES
  appstates,   \* heap of AppState objects: address -> AppState
  dicts,       \* heap of dict objects: address -> (id -> Student)
  _state,      \* Store._state: the address of the current AppState
  _listeners,  \* Store._listeners: the list of callables
  regs,        \* for each element of _listeners, the number of the subscribe call that appended it
  handles,     \* handles[r]: the listener captured by the handle that the r-th subscribe call returned
  called,      \* the handles that have been called
  frames,      \* the running _notify_listeners loops, innermost last: the position of each loop's iterator
  notified,    \* the listener invocations that the last call made, in order
  snap,        \* an AppState reference obtained from Store.state and kept by the caller
  snapVal,     \* the value that AppState had when it was obtained
  db,          \* the database file: table name -> rows, a row being id -> <<id, pib, address, faculty, email>>
  trail,       \* for each id, the last DatabaseService call that wrote its row, with the Student it was given
  ui,          \* the last handler of the windows that ran: its inputs, what it found and the calls it made
  call,        \* the last call made on the Store or on the DatabaseService
  raised       \* the exception that left that call (None when it returned)

vars == <<appstates, dicts, _state, _listeners, regs, handles, called, frames,
          notified, snap, snapVal, db, trail, ui, call, raised>>

storeVars == <<appstates, dicts, _state, _listeners, regs, handles, called, frames,
               notified, snap, snapVal>>

(***************************************************************************)
(* Values                                                                  *)
(***************************************************************************)

\* Optional[T]: None is the empty tuple, a present value v is <<v>>.
None == <<>>
Some(v) == <<v>>

\* Python None in a text field of a Student (SQL NULL in a column).
NoneText == "None"

MaxSubs == 3

Ids == {1, 2}

Student(id, pib, address, faculty, email) ==
  [id |-> id, pib |-> pib, address |-> address, faculty |-> faculty, email |-> email]

\* The students that get dispatched: two with the same id and no other field in common,
\* and one with another id.
Students ==
  {Student(1, "Ivan Petrenko", "Kyiv", "CS", "ip@x.com"),
   Student(1, "Ivan P.", "", "", ""),
   Student(2, "Olena", "Lviv", "Math", "o@x.com")}

\* The one of them that gets dispatched to a Store that has listeners.
OneStudent == {Student(1, "Ivan Petrenko", "Kyiv", "CS", "ip@x.com")}

\* The students handed to the DatabaseService: those, one more with the second id and an
\* empty pib, and two whose pib is None.
Records ==
  Students \cup {Student(2, "", "", "", "")} \cup {Student(i, NoneText, "", "", "") : i \in Ids}

\* The ids looked up and deleted: those of the records and one that no record has.
Keys == Ids \cup {3}

Messages == {"boom"}

\* The callables that get subscribed.
Listeners == {"l", "m"}

\* The callables that do nothing to the Store when they are called: those, and
\* StudentForm._on_state_change, which writes to widgets only.
Passive == Listeners \cup {"_on_state_change"}

Action(type, payload) == [type |-> type, payload |-> payload]

Range(s) == {s[i] : i \in DOMAIN s}

RemoveAt(s, k) == [i \in 1..(Len(s) - 1) |-> IF i < k THEN s[i] ELSE s[i + 1]]

\* list.index: the position of the first element equal to x.
FirstIndex(s, x) == CHOOSE k \in DOMAIN s : s[k] = x /\ \A j \in 1..(k - 1) : s[j] # x

(***************************************************************************)
(* dict operations                                                         *)
(***************************************************************************)

EmptyDict == [k \in {} |-> None]

\* d[k] = v
DictSet(d, k, v) == [x \in DOMAIN d \cup {k} |-> IF x = k THEN v ELSE d[x]]

\* d.pop(k, None)
DictPop(d, k) == [x \in DOMAIN d \ {k} |-> d[x]]

(***************************************************************************)
(* The heap                                                                *)
(***************************************************************************)

Heap == [appstates |-> appstates, dicts |-> dicts]

\* The address a new object gets: the least one not in use.
NewAddr(h) == CHOOSE a \in 1..(Cardinality(DOMAIN h) + 1) :
                 a \notin DOMAIN h /\ \A b \in 1..(a - 1) : b \in DOMAIN h

\* Construct an object with value v on heap h.
New(h, v) ==
  LET a == NewAddr(h)
  IN  [addr |-> a, heap |-> [x \in DOMAIN h \cup {a} |-> IF x = a THEN v ELSE h[x]]]

\* AppState(current_student=.., students=.., error=..)
AppState(current_student, students, error) ==
  [current_student |-> current_student, students |-> students, error |-> error]

\* What an AppState reference shows to whoever reads through it.
Val(H, a) ==
  [current_student |-> H.appstates[a].current_student,
   students |-> H.dicts[H.appstates[a].students],
   error |-> H.appstates[a].error]

\* The position of address a among the addresses S that stay in use.
Rank(S, a) == Cardinality({b \in S : b <= a})

\* Objects no reference reaches are freed, and the others are moved to the lowest
\* addresses in their order (an address is an identity, nothing reads its number).
Collect(H, roots) ==
  LET keep == {H.appstates[a].students : a \in roots}
      from(S, n) == CHOOSE a \in S : Rank(S, a) = n
  IN  [appstates |-> [n \in 1..Cardinality(roots) |->
                        [H.appstates[from(roots, n)] EXCEPT !.students = Rank(keep, @)]],
       dicts |-> [n \in 1..Cardinality(keep) |-> H.dicts[from(keep, n)]]]

(***************************************************************************)
(* Store._reducer                                                          *)
(***************************************************************************)

Returned(H, a) == [exc |-> None, ret |-> a, appstates |-> H.appstates, dicts |-> H.dicts]

\* ReduceAddStudent with new_students.setdefault(student.id, student) for the assignment.
ReduceAddStudentSetdefault(H, state, student) ==
  LET students == H.dicts[H.appstates[state].students]
      new_students == New(H.dicts, IF student.id \in DOMAIN students
                                   THEN students
                                   ELSE DictSet(students, student.id, student))
      next == New(H.appstates, AppState(Some(student), new_students.addr, None))
  IN  Returned([appstates |-> next.heap, dicts |-> new_students.heap], next.addr)

ReduceAddStudent(H, state, student) ==
  LET new_students == New(H.dicts, DictSet(H.dicts[H.appstates[state].students], student.id, student))
      next == New(H.appstates, AppState(Some(student), new_students.addr, None))
  IN  Returned([appstates |-> next.heap, dicts |-> new_students.heap], next.addr)

\* ReduceUpdateStudent with the assignment made only `if student.id in new_students`.
ReduceUpdateStudentIfPresent(H, state, student) ==
  LET students == H.dicts[H.appstates[state].students]
      new_students == New(H.dicts, IF student.id \in DOMAIN students
                                   THEN DictSet(students, student.id, student)
                                   ELSE students)
      next == New(H.appstates, AppState(Some(student), new_students.addr, None))
  IN  Returned([appstates |-> next.heap, dicts |-> new_students.heap], next.addr)

ReduceUpdateStudent(H, state, student) ==
  LET new_students == New(H.dicts, DictSet(H.dicts[H.appstates[state].students], student.id, student))
      next == New(H.appstates, AppState(Some(student), new_students.addr, None))
  IN  Returned([appstates |-> next.heap, dicts |-> new_students.heap], next.addr)

\* ReduceDeleteStudent with current_student cleared only when it is the student deleted.
ReduceDeleteStudentKeepsOther(H, state, student_id) ==
  LET current == H.appstates[state].current_student
      new_students == New(H.dicts, DictPop(H.dicts[H.appstates[state].students], student_id))
      next == New(H.appstates,
                  AppState(IF current # None /\ current[1].id # student_id THEN current ELSE None,
                           new_students.addr, None))
  IN  Returned([appstates |-> next.heap, dicts |-> new_students.heap], next.addr)

\* ReduceDeleteStudent with `del new_students[student_id]` for the pop.
ReduceDeleteStudentDel(H, state, student_id) ==
  LET new_students == New(H.dicts, DictPop(H.dicts[H.appstates[state].students], student_id))
      next == New(H.appstates, AppState(None, new_students.addr, None))
  IN  IF student_id \in DOMAIN H.dicts[H.appstates[state].students]
      THEN Returned([appstates |-> next.heap, dicts |-> new_students.heap], next.addr)
      ELSE [Returned(H, state) EXCEPT !.exc = Some("KeyError")]

\* ReduceDeleteStudent with the entry left in students.
ReduceDeleteStudentKeepsEntry(H, state, student_id) ==
  LET new_students == New(H.dicts, H.dicts[H.appstates[state].students])
      next == New(H.appstates, AppState(None, new_students.addr, None))
  IN  Returned([appstates |-> next.heap, dicts |-> new_students.heap], next.addr)

ReduceDeleteStudent(H, state, student_id) ==
  LET new_students == New(H.dicts, DictPop(H.dicts[H.appstates[state].students], student_id))
      next == New(H.appstates, AppState(None, new_students.addr, None))
  IN  Returned([appstates |-> next.heap, dicts |-> new_students.heap], next.addr)

\* ReduceLoadStudent with the student put into state.students before it is passed on.
ReduceLoadStudentCaches(H, state, student) ==
  LET old == H.appstates[state].students
      next == New(H.appstates, AppState(Some(student), old, None))
  IN  Returned([appstates |-> next.heap,
                dicts |-> [H.dicts EXCEPT ![old] = DictSet(@, student.id, student)]], next.addr)

ReduceLoadStudent(H, state, student) ==
  LET next == New(H.appstates, AppState(Some(student), H.appstates[state].students, None))
  IN  Returned([appstates |-> next.heap, dicts |-> H.dicts], next.addr)

\* ReduceSetError with current_student left out of the AppState(...) call, so defaulted.
ReduceSetErrorDropsCurrent(H, state, msg) ==
  LET next == New(H.appstates, AppState(None, H.appstates[state].students, Some(msg)))
  IN  Returned([appstates |-> next.heap, dicts |-> H.dicts], next.addr)

\* ReduceSetError as `state.error = action.payload; return state`.
ReduceSetErrorInPlace(H, state, msg) ==
  Returned([appstates |-> [H.appstates EXCEPT ![state].error = Some(msg)], dicts |-> H.dicts], state)

ReduceSetError(H, state, msg) ==
  LET next == New(H.appstates,
                  AppState(H.appstates[state].current_student, H.appstates[state].students, Some(msg)))
  IN  Returned([appstates |-> next.heap, dicts |-> H.dicts], next.addr)

ReduceClearError(H, state) ==
  LET next == New(H.appstates,
                  AppState(H.appstates[state].current_student, H.appstates[state].students, None))
  IN  Returned([appstates |-> next.heap, dicts |-> H.dicts], next.addr)

\* An action type that is none of the six falls through to `return state`.
ReduceOther(H, state) == Returned(H, state)

_reducer(H, state, action) ==
  CASE action.type = "ADD_STUDENT" -> ReduceAddStudent(H, state, action.payload)
    [] action.type = "UPDATE_STUDENT" -> ReduceUpdateStudent(H, state, action.payload)
    [] action.type = "DELETE_STUDENT" -> ReduceDeleteStudent(H, state, action.payload)
    [] action.type = "LOAD_STUDENT" -> ReduceLoadStudent(H, state, action.payload)
    [] action.type = "SET_ERROR" -> ReduceSetError(H, state, action.payload)
    [] action.type = "CLEAR_ERROR" -> ReduceClearError(H, state)
    [] OTHER -> ReduceOther(H, state)

(***************************************************************************)
(* Store                                                                   *)
(***************************************************************************)

\* store = Store(AppState()): the default AppState, no listeners.
InitStore ==
  /\ dicts = [d \in {1} |-> EmptyDict]
  /\ appstates = [a \in {1} |-> AppState(None, 1, None)]
  /\ _state = 1
  /\ _listeners = <<>>
  /\ regs = <<>>
  /\ handles = <<>>
  /\ called = {}
  /\ frames = <<>>
  /\ notified = <<>>
  /\ snap = None
  /\ snapVal = None

\* dispatch, up to the call of _notify_listeners: self._state = self._reducer(self._state, action)
DispatchStore(action) ==
  /\ frames = <<>>
  /\ LET r == _reducer(Heap, _state, action)
         roots == {r.ret} \cup Range(snap)
         H == Collect(r, roots)
     IN  IF r.exc = None
         THEN /\ _state' = Rank(roots, r.ret)
              /\ snap' = [k \in DOMAIN snap |-> Rank(roots, snap[k])]
              /\ appstates' = H.appstates
              /\ dicts' = H.dicts
              /\ frames' = <<1>>
              /\ notified' = <<>>
              /\ call' = [op |-> "dispatch", action |-> action, pre |-> Val(Heap, _state),
                          next |-> Val(r, r.ret), same |-> (r.ret = _state),
                          listeners |-> _listeners, regs |-> regs]
              /\ raised' = None
         ELSE /\ UNCHANGED <<_state, appstates, dicts, frames, notified, snap>>
              /\ call' = [op |-> "dispatch", action |-> action, pre |-> Val(Heap, _state),
                          next |-> Val(Heap, _state), same |-> TRUE,
                          listeners |-> _listeners, regs |-> regs]
              /\ raised' = r.exc
  /\ UNCHANGED <<_listeners, regs, handles, called, snapVal>>

\* A dispatch made by a caller that touches nothing else.
Dispatch(action) ==
  /\ DispatchStore(action)
  /\ UNCHANGED <<db, trail, ui>>

\* NotifyStep with the listener handed the state dispatch found, not the one it set.
NotifyStepStale ==
  /\ frames # <<>>
  /\ LET i == frames[Len(frames)]
     IN  /\ i <= Len(_listeners)
         /\ _listeners[i] \in Passive
         /\ notified' = Append(notified, [listener |-> _listeners[i], reg |-> regs[i],
                                          state |-> call.pre])
         /\ frames' = [frames EXCEPT ![Len(frames)] = i + 1]
  /\ UNCHANGED <<appstates, dicts, _state, _listeners, regs, handles, called,
                 snap, snapVal, db, trail, ui, call, raised>>

\* One turn of the loop of _notify_listeners: listener(self._state)
NotifyStep ==
  /\ frames # <<>>
  /\ LET i == frames[Len(frames)]
     IN  /\ i <= Len(_listeners)
         /\ _listeners[i] \in Passive
         /\ notified' = Append(notified, [listener |-> _listeners[i], reg |-> regs[i],
                                          state |-> Val(Heap, _state)])
         /\ frames' = [frames EXCEPT ![Len(frames)] = i + 1]
  /\ UNCHANGED <<appstates, dicts, _state, _listeners, regs, handles, called,
                 snap, snapVal, db, trail, ui, call, raised>>

\* The loop of _notify_listeners is exhausted: _notify_listeners and dispatch return.
NotifyReturn ==
  /\ frames # <<>>
  /\ frames[Len(frames)] > Len(_listeners)
  /\ frames' = SubSeq(frames, 1, Len(frames) - 1)
  /\ UNCHANGED <<appstates, dicts, _state, _listeners, regs, handles, called,
                 notified, snap, snapVal, db, trail, ui, call, raised>>

\* subscribe(listener): append, and return a handle that captures the listener.
Subscribe(listener) ==
  /\ frames = <<>>
  /\ Len(handles) < MaxSubs
  /\ _listeners' = Append(_listeners, listener)
  /\ regs' = Append(regs, Len(handles) + 1)
  /\ handles' = Append(handles, listener)
  /\ call' = [op |-> "subscribe", listener |-> listener]
  /\ raised' = None
  /\ notified' = <<>>
  /\ UNCHANGED <<appstates, dicts, _state, called, frames, snap, snapVal, db, trail, ui>>

\* Calling the handle of the r-th subscribe: self._listeners.remove(listener).
\* list.remove deletes the first element equal to listener, and raises ValueError when there is none.
Unsubscribe(r) ==
  /\ frames = <<>>
  /\ LET listener == handles[r]
     IN  IF listener \in Range(_listeners)
         THEN /\ _listeners' = RemoveAt(_listeners, FirstIndex(_listeners, listener))
              /\ regs' = RemoveAt(regs, FirstIndex(_listeners, listener))
              /\ raised' = None
         ELSE /\ UNCHANGED <<_listeners, regs>>
              /\ raised' = Some("ValueError")
  /\ notified' = <<>>
  /\ called' = called \cup {r}
  /\ call' = [op |-> "unsubscribe", handle |-> r]
  /\ UNCHANGED <<appstates, dicts, _state, handles, frames, snap, snapVal, db, trail, ui>>

\* The state property: return self._state. The caller keeps the reference.
GetState ==
  /\ frames = <<>>
  /\ LET H == Collect(Heap, {_state})
     IN  /\ appstates' = H.appstates
         /\ dicts' = H.dicts
         /\ _state' = Rank({_state}, _state)
         /\ snap' = Some(Rank({_state}, _state))
  /\ snapVal' = Some(Val(Heap, _state))
  /\ call' = [op |-> "state", pre |-> Val(Heap, _state), listeners |-> _listeners]
  /\ raised' = None
  /\ notified' = <<>>
  /\ UNCHANGED <<_listeners, regs, handles, called, frames, db, trail, ui>>

\* A dispatch of any action: the six types with a payload of the type's kind, the
\* students among S, and an action of no known type.
DispatchAny(S) ==
  \/ \E s \in S : Dispatch(Action("ADD_STUDENT", s))
  \/ \E s \in S : Dispatch(Action("UPDATE_STUDENT", s))
  \/ \E i \in Ids : Dispatch(Action("DELETE_STUDENT", i))
  \/ \E s \in S : Dispatch(Action("LOAD_STUDENT", s))
  \/ \E m \in Messages : Dispatch(Action("SET_ERROR", m))
  \/ Dispatch(Action("CLEAR_ERROR", None))
  \/ Dispatch(Action("OTHER", None))

(***************************************************************************)
(* DatabaseService                                                         *)
(***************************************************************************)

\* The rows of table students.
Rows(d) == d["students"]

WithRows(d, rows) == [d EXCEPT !["students"] = rows]

\* The outcome of a method: the database it leaves, and what it returned or raised.
Outcome(d, ret, exc) == [db |-> d, ret |-> ret, exc |-> exc]

\* _init_database with DROP TABLE IF EXISTS before the CREATE TABLE.
_init_databaseAfresh(d) == [t \in DOMAIN d \cup {"students"} |-> IF t = "students" THEN EmptyDict ELSE d[t]]

\* CREATE TABLE IF NOT EXISTS students (id INTEGER PRIMARY KEY, pib TEXT NOT NULL, ...)
_init_database(d) ==
  IF "students" \in DOMAIN d
  THEN d
  ELSE [t \in DOMAIN d \cup {"students"} |-> IF t = "students" THEN EmptyDict ELSE d[t]]

\* The constraints of the table that a row can break: PRIMARY KEY on id, NOT NULL on pib.
BreaksConstraint(rows, row) == row[1] \in DOMAIN rows \/ row[2] = NoneText

\* create_student with INSERT OR REPLACE INTO students.
create_studentOrReplace(d, student) ==
  LET row == <<student.id, student.pib, student.address, student.faculty, student.email>>
  IN  IF row[2] = NoneText
      THEN Outcome(d, FALSE, None)
      ELSE Outcome(WithRows(d, DictSet(Rows(d), student.id, row)), TRUE, None)

\* INSERT INTO students (id, pib, address, faculty, email) VALUES (?, ?, ?, ?, ?);
\* sqlite3.IntegrityError is caught and False returned.
create_student(d, student) ==
  LET row == <<student.id, student.pib, student.address, student.faculty, student.email>>
  IN  IF BreaksConstraint(Rows(d), row)
      THEN Outcome(d, FALSE, None)
      ELSE Outcome(WithRows(d, DictSet(Rows(d), student.id, row)), TRUE, None)

\* get_student with the row's columns read as (id, pib, faculty, address, email).
get_studentFacultyFirst(d, student_id) ==
  IF student_id \in DOMAIN Rows(d)
  THEN LET row == Rows(d)[student_id]
       IN  Outcome(d, Some(Student(row[1], row[2], row[4], row[3], row[5])), None)
  ELSE Outcome(d, None, None)

\* SELECT * FROM students WHERE id = ?; Student(*row)
get_student(d, student_id) ==
  IF student_id \in DOMAIN Rows(d)
  THEN LET row == Rows(d)[student_id]
       IN  Outcome(d, Some(Student(row[1], row[2], row[3], row[4], row[5])), None)
  ELSE Outcome(d, None, None)

\* update_student returning True only when the row's values changed.
update_studentIfChanged(d, student) ==
  IF student.id \notin DOMAIN Rows(d)
  THEN Outcome(d, FALSE, None)
  ELSE IF student.pib = NoneText
       THEN Outcome(d, None, Some("IntegrityError"))
       ELSE LET row == <<Rows(d)[student.id][1], student.pib, student.address, student.faculty, student.email>>
            IN  Outcome(WithRows(d, [Rows(d) EXCEPT ![student.id] = row]), row # Rows(d)[student.id], None)

\* UPDATE students SET pib = ?, address = ?, faculty = ?, email = ? WHERE id = ?;
\* return cursor.rowcount > 0. Nothing catches the IntegrityError of a None pib.
update_student(d, student) ==
  IF student.id \notin DOMAIN Rows(d)
  THEN Outcome(d, FALSE, None)
  ELSE IF student.pib = NoneText
       THEN Outcome(d, None, Some("IntegrityError"))
       ELSE Outcome(WithRows(d, [Rows(d) EXCEPT ![student.id] =
                       <<@[1], student.pib, student.address, student.faculty, student.email>>]),
                    TRUE, None)

\* delete_student with the WHERE clause left out: every row goes.
delete_studentAll(d, student_id) ==
  IF student_id \in DOMAIN Rows(d)
  THEN Outcome(WithRows(d, EmptyDict), TRUE, None)
  ELSE Outcome(d, FALSE, None)

\* DELETE FROM students WHERE id = ?; return cursor.rowcount > 0
delete_student(d, student_id) ==
  IF student_id \in DOMAIN Rows(d)
  THEN Outcome(WithRows(d, DictPop(Rows(d), student_id)), TRUE, None)
  ELSE Outcome(d, FALSE, None)

\* db_service = DatabaseService(): __init__ runs _init_database on the file, here a new one.
InitDatabase == db = _init_database([t \in {} |-> EmptyDict])

\* The trail after a call: a create_student, update_student or delete_student that returned
\* True is the last call that wrote the row with that id.
Written(op, arg, out) ==
  IF op \in {"create_student", "update_student"} /\ out.exc = None
  THEN IF out.ret THEN DictSet(trail, arg.id, [op |-> op, student |-> Some(arg)]) ELSE trail
  ELSE IF op = "delete_student" /\ out.exc = None
       THEN IF out.ret THEN DictSet(trail, arg, [op |-> op, student |-> None]) ELSE trail
       ELSE trail

\* What a call of a method of the DatabaseService does to the file, with its outcome.
DbEffect(op, arg, out) ==
  /\ db' = out.db
  /\ trail' = Written(op, arg, out)
  /\ call' = [op |-> op, arg |-> arg, pre |-> db, last |-> trail, ret |-> out.ret]
  /\ raised' = out.exc

\* A call of a method of the DatabaseService, with its outcome.
DbCall(op, arg, out) ==
  /\ frames = <<>>
  /\ DbEffect(op, arg, out)
  /\ UNCHANGED <<storeVars, ui>>

CreateStudent(student) == DbCall("create_student", student, create_student(db, student))

GetStudent(student_id) == DbCall("get_student", student_id, get_student(db, student_id))

UpdateStudent(student) == DbCall("update_student", student, update_student(db, student))

DeleteStudent(student_id) == DbCall("delete_student", student_id, delete_student(db, student_id))

InitSchema == DbCall("_init_database", None, Outcome(_init_database(db), None, None))

(***************************************************************************)
(* The windows: NewStudentDialog and StudentForm                           *)
(***************************************************************************)

\* What a QLineEdit holds when a button is clicked: five texts, as typed or as displayed.
Form(id, pib, address, faculty, email) ==
  [id_input |-> id, pib_input |-> pib, address_input |-> address,
   faculty_input |-> faculty, email_input |-> email]

\* The contents tried: three that give the three Students, two of them with blanks around a
\* text, one with a blank id, one with an id that is no number, one with a blank pib.
Forms ==
  {Form("1", "Ivan Petrenko", " Kyiv", "CS", "ip@x.com"),
   Form("1", " Ivan P. ", "", "", ""),
   Form(" 2 ", "Olena", "Lviv", "Math", "o@x.com"),
   Form("  ", "Ivan Petrenko", " Kyiv", "CS", "ip@x.com"),
   Form("x", " Ivan P. ", "", "", ""),
   Form("1", "  ", "", "", "")}

\* The answers to QMessageBox.question.
Replies == {"Yes", "No"}

\* str.strip() on the texts of Forms.
strip(text) ==
  CASE text = "  " -> ""
    [] text = " 2 " -> "2"
    [] text = " Ivan P. " -> "Ivan P."
    [] text = " Kyiv" -> "Kyiv"
    [] OTHER -> text

\* int(text) on the stripped texts: the number, or None for ValueError.
int(text) ==
  CASE text = "1" -> Some(1)
    [] text = "2" -> Some(2)
    [] OTHER -> None

\* What a handler leaves in ui.
Ran(handler, input, outcome, calls) ==
  [handler |-> handler, input |-> input, outcome |-> outcome, calls |-> calls,
   pre |-> Val(Heap, _state), preDb |-> db]

\* A handler that shows a warning and returns.
Rejected(handler, input) ==
  /\ ui' = Ran(handler, input, "rejected", <<>>)
  /\ UNCHANGED <<storeVars, db, trail, call, raised>>

\* if self.db_service.<op>(arg): self.store.dispatch(action) else: a message box
GatewayThenDispatch(handler, input, op, arg, out, ok, action) ==
  IF out.exc = None /\ ok
  THEN /\ db' = out.db
       /\ trail' = Written(op, arg, out)
       /\ DispatchStore(action)
       /\ ui' = Ran(handler, input, "done", <<op, "dispatch">>)
  ELSE /\ DbEffect(op, arg, out)
       /\ ui' = Ran(handler, input, IF out.exc = None THEN "failed" ELSE "raised", <<op>>)
       /\ UNCHANGED storeVars

\* _handle_add_student with the dispatch made whatever create_student returned.
_handle_add_studentAnyway(form) ==
  /\ frames = <<>>
  /\ LET id_text == strip(form.id_input)
         pib == strip(form.pib_input)
     IN  IF id_text = "" \/ pib = ""
         THEN Rejected("_handle_add_student", form)
         ELSE IF int(id_text) = None
              THEN Rejected("_handle_add_student", form)
              ELSE LET student == Student(int(id_text)[1], pib, strip(form.address_input),
                                          strip(form.faculty_input), strip(form.email_input))
                       out == create_student(db, student)
                   IN  GatewayThenDispatch("_handle_add_student", form, "create_student", student,
                                           out, TRUE, Action("ADD_STUDENT", student))

\* NewStudentDialog._handle_add_student
_handle_add_student(form) ==
  /\ frames = <<>>
  /\ LET id_text == strip(form.id_input)
         pib == strip(form.pib_input)
     IN  IF id_text = "" \/ pib = ""
         THEN Rejected("_handle_add_student", form)
         ELSE IF int(id_text) = None
              THEN Rejected("_handle_add_student", form)
              ELSE LET student == Student(int(id_text)[1], pib, strip(form.address_input),
                                          strip(form.faculty_input), strip(form.email_input))
                       out == create_student(db, student)
                   IN  GatewayThenDispatch("_handle_add_student", form, "create_student", student,
                                           out, out.ret, Action("ADD_STUDENT", student))

\* StudentForm._handle_search_student
_handle_search_student(form) ==
  /\ frames = <<>>
  /\ LET id_text == strip(form.id_input)
     IN  IF id_text = ""
         THEN Rejected("_handle_search_student", form)
         ELSE IF int(id_text) = None
              THEN Rejected("_handle_search_student", form)
              ELSE LET student_id == int(id_text)[1]
                       out == get_student(db, student_id)
                   IN  GatewayThenDispatch("_handle_search_student", form, "get_student", student_id,
                                           out, out.ret # None, Action("LOAD_STUDENT", out.ret[1]))

\* StudentForm._handle_delete_student
_handle_delete_student(reply) ==
  /\ frames = <<>>
  /\ LET current_student == Val(Heap, _state).current_student
     IN  IF current_student = None
         THEN Rejected("_handle_delete_student", reply)
         ELSE IF reply = "Yes"
              THEN LET student_id == current_student[1].id
                       out == delete_student(db, student_id)
                   IN  GatewayThenDispatch("_handle_delete_student", reply, "delete_student", student_id,
                                           out, out.ret, Action("DELETE_STUDENT", student_id))
              ELSE /\ ui' = Ran("_handle_delete_student", reply, "declined", <<>>)
                   /\ UNCHANGED <<storeVars, db, trail, call, raised>>

\* _handle_edit_student without the test of the pib.
_handle_edit_studentAnyPib(form) ==
  /\ frames = <<>>
  /\ LET current_student == Val(Heap, _state).current_student
         pib == strip(form.pib_input)
     IN  IF current_student = None
         THEN Rejected("_handle_edit_student", form)
         ELSE LET updated_student == Student(current_student[1].id, pib, strip(form.address_input),
                                             strip(form.faculty_input), strip(form.email_input))
                  out == update_student(db, updated_student)
              IN  GatewayThenDispatch("_handle_edit_student", form, "update_student", updated_student,
                                      out, out.ret, Action("UPDATE_STUDENT", updated_student))

\* StudentForm._handle_edit_student
_handle_edit_student(form) ==
  /\ frames = <<>>
  /\ LET current_student == Val(Heap, _state).current_student
         pib == strip(form.pib_input)
     IN  IF current_student = None
         THEN Rejected("_handle_edit_student", form)
         ELSE IF pib = ""
              THEN Rejected("_handle_edit_student", form)
              ELSE LET updated_student == Student(current_student[1].id, pib, strip(form.address_input),
                                                  strip(form.faculty_input), strip(form.email_input))
                       out == update_student(db, updated_student)
                   IN  GatewayThenDispatch("_handle_edit_student", form, "update_student", updated_student,
                                           out, out.ret, Action("UPDATE_STUDENT", updated_student))

\* The tables that earlier runs of the program can have left in the file.
Tables ==
  LET row(s) == <<s.id, s.pib, s.address, s.faculty, s.email>>
      rows == UNION {[S -> {row(s) : s \in Students}] : S \in SUBSET Ids}
  IN  {[t \in {"students"} |-> r] : r \in {r \in rows : \A i \in DOMAIN r : r[i][1] = i}}

\* main(): store = Store(AppState()); db_service = DatabaseService(); StudentForm(store,
\* db_service), whose __init__ subscribes _on_state_change.
InitApp ==
  /\ dicts = [d \in {1} |-> EmptyDict]
  /\ appstates = [a \in {1} |-> AppState(None, 1, None)]
  /\ _state = 1
  /\ _listeners = <<"_on_state_change">>
  /\ regs = <<1>>
  /\ handles = <<"_on_state_change">>
  /\ called = {}
  /\ frames = <<>>
  /\ notified = <<>>
  /\ snap = None
  /\ snapVal = None
  /\ db \in {_init_database(d) : d \in Tables}
  /\ trail = <<>>
  /\ ui = [handler |-> "none"]
  /\ call = [op |-> "init"]
  /\ raised = None

\* The buttons of the two windows.
Click ==
  \/ \E form \in Forms : _handle_add_student(form)
  \/ \E form \in Forms : _handle_search_student(form)
  \/ \E reply \in Replies : _handle_delete_student(reply)
  \/ \E form \in Forms : _handle_edit_student(form)

\* The program: one Store, one DatabaseService, the windows.
NextApp ==
  \/ Click
  \/ NotifyStep
  \/ NotifyReturn

SpecApp == InitApp /\ [][NextApp]_vars

\* Another run of the program on the same file deletes a row.
Elsewhere(student_id) ==
  /\ frames = <<>>
  /\ DbEffect("delete_student", student_id, delete_student(db, student_id))
  /\ ui' = [handler |-> "none"]
  /\ UNCHANGED storeVars

\* The program, with the file also written by another run of it.
NextShared ==
  \/ Click
  \/ NotifyStep
  \/ NotifyReturn
  \/ \E student_id \in Ids : Elsewhere(student_id)

SpecShared == InitApp /\ [][NextShared]_vars

Init ==
  /\ InitStore
  /\ InitDatabase
  /\ trail = <<>>
  /\ ui = [handler |-> "none"]
  /\ call = [op |-> "init"]
  /\ raised = None

\* The Store with its listeners.
Next ==
  \/ DispatchAny(OneStudent)
  \/ NotifyStep
  \/ NotifyReturn
  \/ \E l \in Listeners : Subscribe(l)
  \/ \E r \in DOMAIN handles : Unsubscribe(r)

Spec == Init /\ [][Next]_vars

\* The Store's state and the references to it that callers keep; nothing subscribes,
\* so _notify_listeners has no listener to call.
NextState ==
  \/ DispatchAny(Students)
  \/ NotifyReturn
  \/ GetState

SpecState == Init /\ [][NextState]_vars

(***************************************************************************)
(* Listeners that raise, change the list of listeners, or dispatch         *)
(***************************************************************************)

\* The listener that the innermost loop of _notify_listeners is about to call. The list
\* iterator has moved on when the listener runs, whatever the listener does to the list.
Turn(listener) ==
  /\ frames # <<>>
  /\ frames[Len(frames)] <= Len(_listeners)
  /\ _listeners[frames[Len(frames)]] = listener
  /\ notified' = Append(notified, [listener |-> listener, reg |-> regs[frames[Len(frames)]],
                                   state |-> Val(Heap, _state)])

Advanced == [frames EXCEPT ![Len(frames)] = @ + 1]

\* The handle that a listener holds for callable x: the one its last subscribe(x) returned.
HandleFor(x) == CHOOSE r \in DOMAIN handles : handles[r] = x /\ \A q \in DOMAIN handles : handles[q] = x => q <= r

\* NotifyRaiser with the call of the listener wrapped in try/except: the loop goes on.
NotifyRaiserCaught ==
  /\ Turn("raiser")
  /\ frames' = Advanced
  /\ UNCHANGED <<appstates, dicts, _state, _listeners, regs, handles, called,
                 snap, snapVal, db, trail, ui, call, raised>>

\* def raiser(state): raise RuntimeError
\* Nothing catches it: the loop, _notify_listeners and dispatch are left.
NotifyRaiser ==
  /\ Turn("raiser")
  /\ frames' = <<>>
  /\ raised' = Some("RuntimeError")
  /\ UNCHANGED <<appstates, dicts, _state, _listeners, regs, handles, called,
                 snap, snapVal, db, trail, ui, call>>

\* def once(state): unsubscribe_once()      with unsubscribe_once = store.subscribe(once)
NotifyOnce ==
  /\ Turn("once")
  /\ _listeners' = RemoveAt(_listeners, FirstIndex(_listeners, "once"))
  /\ regs' = RemoveAt(regs, FirstIndex(_listeners, "once"))
  /\ called' = called \cup {HandleFor("once")}
  /\ frames' = Advanced
  /\ UNCHANGED <<appstates, dicts, _state, handles, snap, snapVal, db, trail, ui, call, raised>>

\* def kicker(state): unsubscribe_l()       with unsubscribe_l = store.subscribe(l), if
\* l was subscribed at all. list.remove raises ValueError when l is no longer in the list.
NotifyKicker ==
  /\ Turn("kicker")
  /\ IF "l" \notin Range(handles)
     THEN /\ frames' = Advanced
          /\ UNCHANGED <<_listeners, regs, called, raised>>
     ELSE /\ called' = called \cup {HandleFor("l")}
          /\ IF "l" \in Range(_listeners)
             THEN /\ _listeners' = RemoveAt(_listeners, FirstIndex(_listeners, "l"))
                  /\ regs' = RemoveAt(regs, FirstIndex(_listeners, "l"))
                  /\ frames' = Advanced
                  /\ UNCHANGED raised
             ELSE /\ frames' = <<>>
                  /\ raised' = Some("ValueError")
                  /\ UNCHANGED <<_listeners, regs>>
  /\ UNCHANGED <<appstates, dicts, _state, handles, snap, snapVal, db, trail, ui, call>>

\* def adder(state): store.subscribe(l)
NotifyAdder ==
  /\ Turn("adder")
  /\ Len(handles) < MaxSubs
  /\ _listeners' = Append(_listeners, "l")
  /\ regs' = Append(regs, Len(handles) + 1)
  /\ handles' = Append(handles, "l")
  /\ frames' = Advanced
  /\ UNCHANGED <<appstates, dicts, _state, called, snap, snapVal, db, trail, ui, call, raised>>

\* NotifyOnError with a dispatch that, called while a notification is running, replaces
\* the state and leaves the notifying to the loop that is running.
NotifyOnErrorNoLoop ==
  /\ Turn("on_error")
  /\ IF Val(Heap, _state).error = None
     THEN /\ frames' = Advanced
          /\ UNCHANGED <<appstates, dicts, _state, snap>>
     ELSE LET r == _reducer(Heap, _state, Action("CLEAR_ERROR", None))
              roots == {r.ret} \cup Range(snap)
              H == Collect(r, roots)
          IN  /\ _state' = Rank(roots, r.ret)
              /\ snap' = [k \in DOMAIN snap |-> Rank(roots, snap[k])]
              /\ appstates' = H.appstates
              /\ dicts' = H.dicts
              /\ frames' = Advanced
  /\ UNCHANGED <<_listeners, regs, handles, called, snapVal, db, trail, ui, call, raised>>

\* def on_error(state): if state.error: store.dispatch(Action(ActionType.CLEAR_ERROR))
\* The dispatch runs inside the listener: the state is replaced and a new loop of
\* _notify_listeners starts, the loop that called on_error going on when it returns.
NotifyOnError ==
  /\ Turn("on_error")
  /\ IF Val(Heap, _state).error = None
     THEN /\ frames' = Advanced
          /\ UNCHANGED <<appstates, dicts, _state, snap>>
     ELSE LET r == _reducer(Heap, _state, Action("CLEAR_ERROR", None))
              roots == {r.ret} \cup Range(snap)
              H == Collect(r, roots)
          IN  /\ _state' = Rank(roots, r.ret)
              /\ snap' = [k \in DOMAIN snap |-> Rank(roots, snap[k])]
              /\ appstates' = H.appstates
              /\ dicts' = H.dicts
              /\ frames' = Append(Advanced, 1)
  /\ UNCHANGED <<_listeners, regs, handles, called, snapVal, db, trail, ui, call, raised>>

\* The Store with a listener that raises.
NextRaise ==
  \/ DispatchAny(OneStudent)
  \/ NotifyStep
  \/ NotifyRaiser
  \/ NotifyReturn
  \/ \E l \in {"l", "raiser"} : Subscribe(l)
  \/ \E r \in DOMAIN handles : Unsubscribe(r)

SpecRaise == Init /\ [][NextRaise]_vars

\* The Store with listeners that unsubscribe and subscribe while they are notified; the
\* actions dispatched are the two that change error only.
NextChange ==
  \/ \E m \in Messages : Dispatch(Action("SET_ERROR", m))
  \/ Dispatch(Action("CLEAR_ERROR", None))
  \/ NotifyStep
  \/ NotifyOnce
  \/ NotifyKicker
  \/ NotifyAdder
  \/ NotifyReturn
  \/ \E l \in {"l", "once", "kicker", "adder"} : Subscribe(l)
  \/ \E r \in DOMAIN handles : Unsubscribe(r)

SpecChange == Init /\ [][NextChange]_vars

\* The Store with a listener that dispatches.
NextReentrant ==
  \/ DispatchAny(OneStudent)
  \/ NotifyStep
  \/ NotifyOnError
  \/ NotifyReturn
  \/ \E l \in {"l", "on_error"} : Subscribe(l)
  \/ \E r \in DOMAIN handles : Unsubscribe(r)

SpecReentrant == Init /\ [][NextReentrant]_vars

(***************************************************************************)
(* Properties of the Store with its listeners, under Spec                  *)
(***************************************************************************)

ActionTypes ==
  {"ADD_STUDENT", "UPDATE_STUDENT", "DELETE_STUDENT", "LOAD_STUDENT", "SET_ERROR", "CLEAR_ERROR"}

\* The last call was a dispatch, and it has returned.
Dispatched == call.op = "dispatch" /\ frames = <<>>

\* C1: dispatch replaces the state by the reducer's result before it invokes a listener;
\* the listeners in the list at that moment are invoked once each, in the order of their
\* subscribe calls, all of them before dispatch returns, and each is handed the new state.
DispatchNotifiesInOrder ==
  call.op = "dispatch" =>
    /\ Val(Heap, _state) = call.next
    /\ Len(notified) <= Len(call.listeners)
    /\ \A k \in DOMAIN notified :
          /\ notified[k].listener = call.listeners[k]
          /\ notified[k].reg = call.regs[k]
          /\ notified[k].state = call.next
    /\ \A j, k \in DOMAIN call.regs : j < k => call.regs[j] < call.regs[k]
    /\ frames = <<>> => Len(notified) = Len(call.listeners)

\* A dispatch that changed the state has returned after notifying two different listeners.
DispatchNotifiesInOrderWitness ==
  /\ Dispatched
  /\ call.pre # call.next
  /\ Len(notified) >= 2
  /\ notified[1].listener # notified[2].listener

\* C7: no dispatch raises; an action whose type is none of the six leaves students,
\* current_student and error as they were, and the listeners are notified all the same.
DispatchNeverFails ==
  call.op = "dispatch" =>
    /\ raised = None
    /\ _state \in DOMAIN appstates
    /\ call.action.type \notin ActionTypes =>
          /\ Val(Heap, _state) = call.pre
          /\ call.same
          /\ frames = <<>> =>
                /\ Len(notified) = Len(call.listeners)
                /\ \A k \in DOMAIN notified : notified[k].state = call.pre

\* An action of an unknown type was dispatched on a state that is not the initial one,
\* and its listeners have been notified.
DispatchNeverFailsWitness ==
  /\ Dispatched
  /\ call.action.type \notin ActionTypes
  /\ call.pre.current_student # None
  /\ call.pre.students # EmptyDict
  /\ Len(notified) >= 2

\* C8: calling the handle of the r-th subscribe call leaves in the list the listeners of
\* all the other registrations that were in it, in their order, and nothing else.
\* That is, the list holds at any time the listeners of the subscribe calls whose handle
\* has not been called, in the order of these calls.
HandleRemovesItsRegistration ==
  LET uncalled(r) == r \notin called
      keep == SelectSeq([r \in DOMAIN handles |-> r], uncalled)
  IN  _listeners = [k \in DOMAIN keep |-> handles[keep[k]]]

(***************************************************************************)
(* Properties of the reducer and of the state objects, under SpecState     *)
(***************************************************************************)

\* The last call was a dispatch of an action of this type.
After(type) == call.op = "dispatch" /\ call.action.type = type

\* The state the store holds.
Now == Val(Heap, _state)

\* Mappings pre and post have the same entries but for key k.
SameButFor(pre, post, k) ==
  /\ DOMAIN post \ {k} = DOMAIN pre \ {k}
  /\ \A x \in DOMAIN pre \ {k} : post[x] = pre[x]

\* C2: after dispatch(AddStudent(s)), current_student = s, students[s.id] = s, the other
\* entries of students are those of before, and error = none; also when s.id was a key.
AddStudentSetsEntry ==
  After("ADD_STUDENT") =>
    LET s == call.action.payload
    IN  /\ Now.current_student = Some(s)
        /\ s.id \in DOMAIN Now.students
        /\ Now.students[s.id] = s
        /\ SameButFor(call.pre.students, Now.students, s.id)
        /\ Now.error = None

\* AddStudent(s) was dispatched where students held another student under s.id, an entry
\* under another id and an error.
AddStudentSetsEntryWitness ==
  /\ After("ADD_STUDENT")
  /\ call.action.payload.id \in DOMAIN call.pre.students
  /\ call.pre.students[call.action.payload.id] # call.action.payload
  /\ DOMAIN call.pre.students # {call.action.payload.id}
  /\ call.pre.error # None

\* C3 as stated: after dispatch(UpdateStudent(s)) students is the mapping of before with
\* the entry of s.id replaced by s (the keys are those of before), current_student = s and
\* error = none.
UpdateStudentReplacesEntry ==
  After("UPDATE_STUDENT") =>
    LET s == call.action.payload
    IN  /\ Now.current_student = Some(s)
        /\ DOMAIN Now.students = DOMAIN call.pre.students
        /\ \A k \in DOMAIN call.pre.students :
              Now.students[k] = IF k = s.id THEN s ELSE call.pre.students[k]
        /\ Now.error = None

\* C3 amended: after dispatch(UpdateStudent(s)) students[s.id] = s, whether s.id was a key
\* (the entry is replaced) or not (the entry is added), the other entries are those of
\* before, current_student = s and error = none.
UpdateStudentSetsEntry ==
  After("UPDATE_STUDENT") =>
    LET s == call.action.payload
    IN  /\ Now.current_student = Some(s)
        /\ s.id \in DOMAIN Now.students
        /\ Now.students[s.id] = s
        /\ SameButFor(call.pre.students, Now.students, s.id)
        /\ Now.error = None

\* UpdateStudent(s) was dispatched where s.id was no key of students, the current student
\* being one that LoadStudent brought in under that id, and students held another entry.
UpdateStudentSetsEntryWitness ==
  /\ After("UPDATE_STUDENT")
  /\ call.action.payload.id \notin DOMAIN call.pre.students
  /\ call.pre.current_student # None
  /\ call.pre.current_student[1].id = call.action.payload.id
  /\ call.pre.current_student[1] # call.action.payload
  /\ call.pre.students # EmptyDict

\* C4: after dispatch(DeleteStudent(id)) students is the mapping of before without key id,
\* current_student = none and error = none; also when id was no key and the current
\* student had another id.
DeleteStudentClears ==
  After("DELETE_STUDENT") =>
    LET id == call.action.payload
    IN  /\ id \notin DOMAIN Now.students
        /\ SameButFor(call.pre.students, Now.students, id)
        /\ Now.current_student = None
        /\ Now.error = None

\* DeleteStudent(id) was dispatched where id was no key of students, students held an
\* entry, the current student had another id and an error was set.
DeleteStudentClearsWitness ==
  /\ After("DELETE_STUDENT")
  /\ call.action.payload \notin DOMAIN call.pre.students
  /\ call.pre.students # EmptyDict
  /\ call.pre.current_student # None
  /\ call.pre.current_student[1].id # call.action.payload
  /\ call.pre.error # None

\* C5: after dispatch(LoadStudent(s)) students is the mapping of before, current_student = s
\* and error = none.
LoadStudentKeepsStudents ==
  After("LOAD_STUDENT") =>
    /\ Now.students = call.pre.students
    /\ Now.current_student = Some(call.action.payload)
    /\ Now.error = None

\* LoadStudent(s) was dispatched where students held another student under s.id and an
\* error was set.
LoadStudentKeepsStudentsWitness ==
  /\ After("LOAD_STUDENT")
  /\ call.action.payload.id \in DOMAIN call.pre.students
  /\ call.pre.students[call.action.payload.id] # call.action.payload
  /\ call.pre.error # None

\* C6: dispatch(SetError(msg)) sets error = msg and dispatch(ClearError) sets error = none;
\* students and current_student are those of before.
ErrorActionsChangeErrorOnly ==
  /\ After("SET_ERROR") =>
        /\ Now.error = Some(call.action.payload)
        /\ Now.students = call.pre.students
        /\ Now.current_student = call.pre.current_student
  /\ After("CLEAR_ERROR") =>
        /\ Now.error = None
        /\ Now.students = call.pre.students
        /\ Now.current_student = call.pre.current_student

\* ClearError was dispatched where an error was set (by SetError), with a current student
\* and an entry in students.
ErrorActionsChangeErrorOnlyWitness ==
  /\ After("CLEAR_ERROR")
  /\ call.pre.error # None
  /\ call.pre.current_student # None
  /\ call.pre.students # EmptyDict

\* C9: an AppState obtained from the state property keeps the students, current_student and
\* error it had when it was obtained, whatever is dispatched afterwards; and reading the
\* property returns the current state and changes neither it nor the listener list.
SnapshotsImmutable ==
  /\ snap # None => Val(Heap, snap[1]) = snapVal[1]
  /\ call.op = "state" =>
        /\ snap = Some(_state)
        /\ Now = call.pre
        /\ _listeners = call.listeners

\* A state was obtained, and the store has since moved to another state that shares the
\* students mapping object with it and differs from it.
SnapshotsImmutableWitness ==
  /\ snap # None
  /\ snap[1] # _state
  /\ appstates[snap[1]].students = appstates[_state].students
  /\ snapVal[1] # Now
  /\ snapVal[1].students # EmptyDict

(***************************************************************************)
(* Properties of the DatabaseService, under SpecDb                         *)
(***************************************************************************)

\* The row that create_student writes for a student.
RowOf(s) == <<s.id, s.pib, s.address, s.faculty, s.email>>

\* What create_student does when it returns FALSE, and when it returns TRUE.
CreateEffect ==
  LET s == call.arg
  IN  /\ raised = None
      /\ ~call.ret => db = call.pre
      /\ call.ret =>
            /\ s.id \in DOMAIN Rows(db)
            /\ Rows(db)[s.id] = RowOf(s)
            /\ SameButFor(Rows(call.pre), Rows(db), s.id)

\* C10 as stated: create_student(s) returns true iff no row had id s.id, whatever the other
\* fields of s; returning false it does not raise and leaves the table as it was, returning
\* true it has added the row of s and changed no other row.
CreateTrueIffNoRow ==
  call.op = "create_student" =>
    /\ call.ret <=> call.arg.id \notin DOMAIN Rows(call.pre)
    /\ CreateEffect

\* C10 amended: create_student(s) returns true iff no row had id s.id and s.pib is not
\* None; returning false it does not raise and leaves the table as it was, returning true
\* it has added the row of s and changed no other row.
CreateTrueIffNoRowAndPib ==
  call.op = "create_student" =>
    /\ call.ret <=> (call.arg.id \notin DOMAIN Rows(call.pre) /\ call.arg.pib # NoneText)
    /\ CreateEffect

\* create_student returned false for an id that another student's row had, in a table
\* with a row under another id: the table is the one of before.
CreateTrueIffNoRowAndPibWitness ==
  /\ call.op = "create_student"
  /\ ~call.ret
  /\ call.arg.pib # NoneText
  /\ call.arg.id \in DOMAIN Rows(call.pre)
  /\ Rows(call.pre)[call.arg.id] # RowOf(call.arg)
  /\ DOMAIN Rows(call.pre) # {call.arg.id}

\* C11: get_student reflects the table and is read-only. A get_student(id) made after a
\* create_student(s) with s.id = id returned True, with no update_student or delete_student
\* of that id since, returns a Student equal to s in all five fields; for an id that no row
\* has it returns None without raising; get_student never changes the table; and
\* create_student of a Student with a text pib whose id no row has returns True.
GetReflectsTable ==
  /\ call.op = "get_student" =>
       /\ db = call.pre
       /\ raised = None
       /\ call.arg \notin DOMAIN Rows(call.pre) => call.ret = None
       /\ (call.arg \in DOMAIN trail /\ trail[call.arg].op = "create_student")
            => call.ret = trail[call.arg].student
  /\ (/\ call.op = "create_student"
      /\ call.arg.pib # NoneText
      /\ call.arg.id \notin DOMAIN Rows(call.pre))
       => (raised = None /\ call.ret)

\* get_student returns the Student that create_student stored, its five fields all different,
\* while the table holds another row too.
GetReflectsTableWitness ==
  /\ call.op = "get_student"
  /\ call.arg \in DOMAIN trail
  /\ trail[call.arg].op = "create_student"
  /\ call.ret = Some(Student(1, "Ivan Petrenko", "Kyiv", "CS", "ip@x.com"))
  /\ DOMAIN Rows(db) = {1, 2}

\* C12: update_student(s), s having a text pib, returns True iff a row with id s.id is in the
\* table before the call, also when s's values are the stored ones. When it returns True the
\* row of s.id has its id as before and the pib, address, faculty and email of s, the set of
\* ids is as before and every other row is as before, so a get_student(s.id) made before any
\* other write of that id returns a Student equal to s. When no row has id s.id it returns
\* False without raising and the table is as before.
UpdateTrueIffRow ==
  /\ (call.op = "update_student" /\ call.arg.pib # NoneText) =>
       LET s == call.arg
           pre == Rows(call.pre)
       IN  /\ raised = None
           /\ call.ret <=> s.id \in DOMAIN pre
           /\ ~call.ret => db = call.pre
           /\ call.ret =>
                /\ DOMAIN Rows(db) = DOMAIN pre
                /\ Rows(db)[s.id] = <<pre[s.id][1], s.pib, s.address, s.faculty, s.email>>
                /\ Rows(db)[s.id][1] = s.id
                /\ SameButFor(pre, Rows(db), s.id)
                /\ DOMAIN db = DOMAIN call.pre
  /\ (/\ call.op = "get_student"
      /\ call.arg \in DOMAIN trail
      /\ trail[call.arg].op = "update_student")
       => call.ret = trail[call.arg].student

\* update_student returned True and changed all four fields of a row, with another row in the table.
UpdateTrueIffRowWitness ==
  /\ call.op = "update_student"
  /\ raised = None
  /\ call.ret
  /\ DOMAIN Rows(db) = {1, 2}
  /\ \A k \in 2..5 : Rows(db)[call.arg.id][k] # Rows(call.pre)[call.arg.id][k]

\* C13: delete_student(id) returns True iff a row with that id was in the table before the
\* call; it never raises; when it returns True exactly that row is gone and every other row
\* is as before, and until the id is written again get_student(id) returns None and
\* delete_student(id) returns False; when it returns False the table is as before.
DeleteTrueIffRow ==
  /\ call.op = "delete_student" =>
       LET pre == Rows(call.pre)
       IN  /\ raised = None
           /\ call.ret <=> call.arg \in DOMAIN pre
           /\ ~call.ret => db = call.pre
           /\ call.ret =>
                /\ DOMAIN Rows(db) = DOMAIN pre \ {call.arg}
                /\ \A x \in DOMAIN Rows(db) : Rows(db)[x] = pre[x]
                /\ DOMAIN db = DOMAIN call.pre
           /\ (call.arg \in DOMAIN call.last /\ call.last[call.arg].op = "delete_student")
                => ~call.ret
  /\ (/\ call.op = "get_student"
      /\ call.arg \in DOMAIN trail
      /\ trail[call.arg].op = "delete_student")
       => call.ret = None

\* delete_student returned True on a table of two rows, and the other row is still there.
DeleteTrueIffRowWitness ==
  /\ call.op = "delete_student"
  /\ call.ret
  /\ DOMAIN Rows(call.pre) = {1, 2}
  /\ Cardinality(DOMAIN Rows(db)) = 1

\* C14: _init_database is idempotent. Once the table exists, a call of _init_database made
\* at any point between the other calls leaves the schema and every row as they were and
\* does not raise.
InitSchemaIdempotent ==
  call.op = "_init_database" =>
    /\ db = call.pre
    /\ raised = None
    /\ "students" \in DOMAIN db

\* _init_database was called on a table that holds two rows.
InitSchemaIdempotentWitness ==
  /\ call.op = "_init_database"
  /\ DOMAIN Rows(call.pre) = {1, 2}

\* The gateway method that each handler calls and the type of the action it dispatches.
GatewayOf(handler) ==
  CASE handler = "_handle_add_student" -> "create_student"
    [] handler = "_handle_search_student" -> "get_student"
    [] handler = "_handle_edit_student" -> "update_student"
    [] handler = "_handle_delete_student" -> "delete_student"

ActionOf(handler) ==
  CASE handler = "_handle_add_student" -> "ADD_STUDENT"
    [] handler = "_handle_search_student" -> "LOAD_STUDENT"
    [] handler = "_handle_edit_student" -> "UPDATE_STUDENT"
    [] handler = "_handle_delete_student" -> "DELETE_STUDENT"

\* The input of the handler run u fails validation: an id or pib that is blank, an id that
\* is no number, no current student.
Invalid(u) ==
  CASE u.handler = "_handle_add_student" ->
         \/ strip(u.input.id_input) = ""
         \/ strip(u.input.pib_input) = ""
         \/ int(strip(u.input.id_input)) = None
    [] u.handler = "_handle_search_student" ->
         \/ strip(u.input.id_input) = ""
         \/ int(strip(u.input.id_input)) = None
    [] u.handler = "_handle_edit_student" ->
         \/ u.pre.current_student = None
         \/ strip(u.input.pib_input) = ""
    [] u.handler = "_handle_delete_student" -> u.pre.current_student = None

\* The handler run u got past validation and, for a delete, past the question.
ReachesGateway(u) ==
  /\ u.handler # "none"
  /\ ~Invalid(u)
  /\ u.handler = "_handle_delete_student" => u.input = "Yes"

\* The id that the gateway call of the handler run u is about.
IdOf(u) ==
  IF u.handler \in {"_handle_add_student", "_handle_search_student"}
  THEN int(strip(u.input.id_input))[1]
  ELSE u.pre.current_student[1].id

\* The table that the handler run u found makes its gateway call succeed.
GatewaySucceeds(u) ==
  IF u.handler = "_handle_add_student"
  THEN IdOf(u) \notin DOMAIN Rows(u.preDb)
  ELSE IdOf(u) \in DOMAIN Rows(u.preDb)

\* C15: a handler whose input is accepted calls its gateway method first, and dispatches its
\* action iff that call succeeded (create, update or delete returned True, get returned a
\* Student). When the call fails nothing is dispatched and the Store's state is the one of
\* before: a search that finds no row leaves current_student as it was.
GatewayBeforeDispatch ==
  ReachesGateway(ui) =>
    /\ ui.calls # <<>>
    /\ ui.calls[1] = GatewayOf(ui.handler)
    /\ IF GatewaySucceeds(ui)
       THEN /\ ui.calls = <<GatewayOf(ui.handler), "dispatch">>
            /\ call.op = "dispatch"
            /\ call.action.type = ActionOf(ui.handler)
            /\ call.pre = ui.pre
       ELSE /\ ui.calls = <<GatewayOf(ui.handler)>>
            /\ call.op = GatewayOf(ui.handler)
            /\ call.pre = ui.preDb
            /\ db = ui.preDb
            /\ Now = ui.pre
            /\ frames = <<>>

\* A search found no row while a student loaded earlier is the current one, and he still is.
GatewayBeforeDispatchWitness ==
  /\ ui.handler = "_handle_search_student"
  /\ ui.outcome = "failed"
  /\ call.op = "get_student"
  /\ call.ret = None
  /\ Now.current_student # None
  /\ Now.current_student[1].id # call.arg

\* C16: a handler whose input fails validation (add with a blank id or pib or an id that is
\* no number, search with a blank id or an id that is no number, edit with a blank pib,
\* edit or delete with no current student) returns before any gateway call and any
\* dispatch: the table, the Store and the last call made on either are as before.
RejectedBeforeAnyCall ==
  [][(ui'.handler # "none" /\ Invalid(ui')) =>
       /\ db' = db
       /\ _state' = _state
       /\ appstates' = appstates
       /\ dicts' = dicts
       /\ _listeners' = _listeners
       /\ frames' = frames
       /\ notified' = notified
       /\ raised' = raised
       /\ call' = call]_vars

\* An edit with a blank pib was turned down while a student is the current one and the
\* table holds his row.
RejectedBeforeAnyCallWitness ==
  /\ ui.handler = "_handle_edit_student"
  /\ ui.outcome = "rejected"
  /\ ui.pre.current_student # None
  /\ strip(ui.input.pib_input) = ""
  /\ ui.pre.current_student[1].id \in DOMAIN Rows(db)

\* C20: in the program (one Store, one DatabaseService, no other writer of the file), from
\* the initial Store and any table, after any sequence of add, search, edit and delete
\* handlers every entry of students equals the row of the table with its id, and
\* current_student, when there is one, equals the row with its id.
CacheCoherent ==
  /\ \A i \in DOMAIN Now.students : get_student(db, i).ret = Some(Now.students[i])
  /\ Now.current_student # None
       => get_student(db, Now.current_student[1].id).ret = Now.current_student

\* After an edit, students holds two entries and the table more rows than one.
CacheCoherentWitness ==
  /\ ui.handler = "_handle_edit_student"
  /\ ui.outcome = "done"
  /\ frames = <<>>
  /\ Cardinality(DOMAIN Now.students) = 2
  /\ Now.current_student # None
  /\ Now.current_student[1].id \in DOMAIN ui.pre.students
  /\ Now.students[Now.current_student[1].id] # ui.pre.students[Now.current_student[1].id]

(***************************************************************************)
(* Properties of the Store with listeners that act                         *)
(***************************************************************************)

\* The invocations, in order, of the registration that subscribe call r made.
InvocationsOf(r) == {j \in DOMAIN notified : notified[j].reg = r}

\* C17: when a listener raises while a dispatch notifies, the error leaves dispatch, the
\* Store holds the reducer's result (nothing is rolled back), the listeners before the one
\* that raised have been notified, in order, with that state, and the listeners after it
\* are not invoked.
RaiseLeavesDispatch ==
  (call.op = "dispatch" /\ frames = <<>> /\ "raiser" \in Range(call.listeners)) =>
    LET k == FirstIndex(call.listeners, "raiser")
    IN  /\ raised = Some("RuntimeError")
        /\ Now = call.next
        /\ notified = [j \in 1..k |-> [listener |-> call.listeners[j], reg |-> call.regs[j],
                                       state |-> call.next]]

\* A dispatch that changed the state was left by the error of the second of three
\* listeners: the first was notified, the third was not.
RaiseLeavesDispatchWitness ==
  /\ call.op = "dispatch"
  /\ frames = <<>>
  /\ raised = Some("RuntimeError")
  /\ call.listeners = <<"l", "raiser", "l">>
  /\ Len(notified) = 2
  /\ Now # call.pre

\* C18: a listener subscribed when a dispatch began and not unsubscribed since is invoked
\* exactly once for that dispatch, also when listeners call unsubscribe handles or subscribe
\* while they are notified.
EveryListenerInvokedOnce ==
  (call.op = "dispatch" /\ frames = <<>> /\ raised = None) =>
    \A k \in DOMAIN call.regs :
      call.regs[k] \in Range(regs) => Cardinality(InvocationsOf(call.regs[k])) = 1

\* C19: when a listener dispatches from inside its notification, every invocation of a
\* listener is handed the state the Store holds at that moment, and when the outermost
\* dispatch returns, the last invocation of each subscribed listener was handed the state
\* the Store holds then.
NoStaleState ==
  /\ [](((call.op = "dispatch" /\ frames = <<>> /\ raised = None) =>
          \A k \in DOMAIN regs :
             \E j \in InvocationsOf(regs[k]) :
                /\ notified[j].state = Now
                /\ \A q \in InvocationsOf(regs[k]) : q <= j))
  /\ [][Len(notified') = Len(notified) + 1 =>
          notified'[Len(notified')].state = Val(Heap, _state)]_vars

\* The listener subscribed after the one that dispatched was invoked twice, both times with
\* the final state, and never with the state the outer dispatch had set.
NoStaleStateWitness ==
  /\ call.op = "dispatch"
  /\ frames = <<>>
  /\ _listeners = <<"on_error", "l">>
  /\ Now # call.next
  /\ Cardinality(InvocationsOf(regs[2])) = 2
  /\ \A j \in InvocationsOf(regs[2]) : notified[j].state = Now
  /\ \E j \in InvocationsOf(regs[1]) : notified[j].state = call.next

\* The DatabaseService.
NextDb ==
  \/ \E s \in Records : CreateStudent(s)
  \/ \E k \in Keys : GetStudent(k)
  \/ \E s \in Records : UpdateStudent(s)
  \/ \E k \in Keys : DeleteStudent(k)
  \/ InitSchema

SpecDb == Init /\ [][NextDb]_vars

====
